---- MODULE Spec2Model ----
(***************************************************************************)
(* Model of the Pololu APA102 Arduino library (APA102.h): the bit-banged   *)
(* two-wire frame protocol of the template class APA102<dataPin,clockPin>. *)
(*                                                                         *)
(* The program is modelled as a small stack machine.  A caller (a sketch)  *)
(* owns a program: a sequence of calls of the public operations.  Every    *)
(* function of the library is translated statement by statement; a call    *)
(* pushes a frame, a return pops it.  The GPIO state is the output         *)
(* register (port) and the direction (mode) of each pin, as the Arduino    *)
(* core keeps them.  The default build (no APA102_USE_FAST_GPIO) is the    *)
(* one modelled.                                                           *)
(*                                                                         *)
(* History variables record what each call did: the bytes it clocked out   *)
(* (sampled from the data pin on every rising clock edge, as the LED chip  *)
(* samples them) and the sequence of GPIO operations it issued, both in    *)
(* run-length form so that the frame of a 65535-LED strip stays small.     *)
(***************************************************************************)
EXTENDS Integers, Sequences, FiniteSets, TLC

\* ------------------------------------------------------------------ types

\* uint16_t holds values modulo 2^16, uint8_t modulo 2^8.
UINT16_BITS == 16
UINT8_BITS == 8

Pow2(n) == 2 ^ n

UINT16_MAX == Pow2(UINT16_BITS) - 1

\* Arduino levels and pin modes.
LOW == 0
HIGH == 1

\* bit k of x (x >> k & 1).
Bit(x, k) == (x \div Pow2(k)) % 2

\* a | b on 8-bit operands, bit by bit.
RECURSIVE OrBits(_, _, _)
OrBits(a, b, k) ==
    IF k = 0 THEN 0
    ELSE LET hi == IF Bit(a, k - 1) = 1 \/ Bit(b, k - 1) = 1 THEN Pow2(k - 1) ELSE 0
         IN  hi + OrBits(a, b, k - 1)

BitOr(a, b) == OrBits(a, b, UINT8_BITS)

\* struct rgb_color { uint8_t red, green, blue; }
rgb_color(r, g, b) == [red |-> r, green |-> g, blue |-> b]

\* The default argument of the brightness parameter.  An argument the caller
\* leaves out is the empty tuple, a given one is <<value>>.
DefaultBrightness == 31

ArgOr(arg, dflt) == IF arg = <<>> THEN dflt ELSE arg[1]

\* ----------------------------------------------------------------- bounds

\* Longest color array the caller builds element by element.
MaxLeds == 2
\* Longest program (sequence of public calls) of arbitrary calls.
MaxCalls == 2
\* Length of the arrays that are written in every order.
PermLeds == 3

\* ----------------------------------------------------------------- strips

\* The template parameters <dataPin, clockPin> of each APA102 object: the
\* strip of the Brightness example, and a second strip on another data pin
\* that shares the clock pin of the first.
StripPins == <<[dataPin |-> 11, clockPin |-> 12], [dataPin |-> 10, clockPin |-> 12]>>

\* The strip a sketch with one strip drives, and all the strips.
Strips == {1}
AllStrips == DOMAIN StripPins
Pins == {StripPins[s].dataPin : s \in AllStrips} \cup {StripPins[s].clockPin : s \in AllStrips}

\* The main program (thread 1) and a second context calling the library
\* (thread 2: an interrupt handler or a task of higher priority).
Threads == {1, 2}

\* ------------------------------------------------------------------ state

VARIABLES
    prog,   \* prog[t]: the calls thread t makes, in order
    ci,     \* ci[t]: index of the call in progress (or next) in prog[t]
    stk,    \* stk[t]: call stack of thread t, innermost frame last
    mode,   \* mode[p]: direction of pin p, "INPUT" or "OUTPUT"
    port,   \* port[p]: output register bit of pin p
    sr,     \* sr[t]: bits sampled on rising clock edges, current byte
    nbits,  \* nbits[t]: number of bits in sr[t]
    out,    \* out[t][k]: bytes clocked out by call k (run-length form)
    tail,   \* tail[t]: clock edges since the last pulse that carried a 1
    cur,    \* cur[t]: GPIO operations of the innermost init/transfer so far
    gpio,   \* gpio[t][k]: GPIO operations of call k (runs of init/transfer)
    inits,  \* inits[t][k]: number of times call k has run init
    wire    \* wire[s]: bits the first LED of strip s has sampled, as bytes

vars == <<prog, ci, stk, mode, port, sr, nbits, out, tail, cur, gpio, inits, wire>>

\* -------------------------------------------------------- run-length logs

\* Append one item to a run-length log: <<[v |-> item, n |-> repeats], ...>>.
RleAdd(log, x) ==
    IF log # <<>> /\ log[Len(log)].v = x
    THEN [log EXCEPT ![Len(log)].n = @ + 1]
    ELSE Append(log, [v |-> x, n |-> 1])

RECURSIVE RleLen(_)
RleLen(log) == IF log = <<>> THEN 0 ELSE log[1].n + RleLen(Tail(log))

\* The item at 0-based position k of the logged sequence.
RECURSIVE RleAt(_, _)
RleAt(log, k) ==
    IF k < log[1].n THEN log[1].v ELSE RleAt(Tail(log), k - log[1].n)

\* Concatenation of two run-length logs, in run-length form.
RECURSIVE RleCat(_, _)
RleCat(a, b) ==
    IF b = <<>> THEN a
    ELSE IF a # <<>> /\ a[Len(a)].v = b[1].v
         THEN RleCat([a EXCEPT ![Len(a)].n = @ + b[1].n], Tail(b))
         ELSE RleCat(Append(a, b[1]), Tail(b))

\* The run-length form of a plain sequence.
RECURSIVE RleOf(_)
RleOf(s) == IF s = <<>> THEN <<>> ELSE RleCat(<<[v |-> s[1], n |-> 1]>>, RleOf(Tail(s)))

\* ------------------------------------------------------------------ frames

NoColor == rgb_color(0, 0, 0)

NoFrame ==
    [fn |-> "", pc |-> 0, strip |-> 1, colors |-> <<>>, count |-> 0,
     color |-> NoColor, red |-> 0, green |-> 0, blue |-> 0,
     brightness |-> 0, b |-> 0, i |-> 0]

Top(t) == stk[t][Len(stk[t])]

At(t, f, p) == stk[t] # <<>> /\ Top(t).fn = f /\ Top(t).pc = p

\* Faulty variant: every strip drives the data pin of the first strip.
dataPinOfFirst(t) == StripPins[1].dataPin

dataPin(t) == StripPins[Top(t).strip].dataPin

clockPin(t) == StripPins[Top(t).strip].clockPin

\* The statement at the top of the stack is done: go to pc p.
Goto(t, p) == stk' = [stk EXCEPT ![t][Len(stk[t])].pc = p]

\* The statement at the top of the stack calls f and resumes at pc p.
Call(t, p, f) ==
    stk' = [stk EXCEPT ![t] = Append([@ EXCEPT ![Len(@)].pc = p], f)]

NoGpio == UNCHANGED <<mode, port, sr, nbits, out, tail, cur, wire>>

\* -------------------------------------------------------- GPIO capability

\* The chip at the head of a strip samples its data line on each rising
\* edge of its clock line; eight sampled bits make one byte of the log.
NoWire == [sr |-> 0, n |-> 0, bytes |-> <<>>]

WireShift(w, bit) ==
    LET byte == (2 * w.sr + bit) % Pow2(UINT8_BITS)
    IN  IF w.n = UINT8_BITS - 1
        THEN [sr |-> 0, n |-> 0, bytes |-> RleAdd(w.bytes, byte)]
        ELSE [sr |-> byte, n |-> w.n + 1, bytes |-> w.bytes]

\* digitalWrite(pin, val): set the output register bit of the pin.
\* History: each time the clock pin of the strip is raised, the level of its
\* data pin is shifted into sr, and eight shifted bits make one byte of the
\* call's output; tail counts the level changes of the clock since the last
\* clock pulse that carried a 1.
digitalWrite(t, pin, val) ==
    LET raise == pin = clockPin(t) /\ val = HIGH
        rising == port[pin] = LOW /\ val = HIGH
        edge == pin = clockPin(t) /\ port[pin] # val
        bit == port[dataPin(t)]
        byte == (2 * sr[t] + bit) % Pow2(UINT8_BITS)
        one == IF raise THEN bit = 1 ELSE sr[t] % 2 = 1
    IN  /\ port' = [port EXCEPT ![pin] = val]
        /\ cur' = [cur EXCEPT ![t] = Append(@, <<"digitalWrite", pin, val>>)]
        /\ IF raise
           THEN /\ sr' = [sr EXCEPT ![t] = byte]
                /\ nbits' = [nbits EXCEPT ![t] = (@ + 1) % UINT8_BITS]
                /\ out' = IF nbits[t] = UINT8_BITS - 1
                          THEN [out EXCEPT ![t][ci[t]] = RleAdd(@, byte)]
                          ELSE out
           ELSE UNCHANGED <<sr, nbits, out>>
        /\ tail' = IF edge
                   THEN [tail EXCEPT ![t] = IF one THEN 0 ELSE @ + 1]
                   ELSE tail
        /\ wire' = [s \in AllStrips |->
                        IF rising /\ pin = StripPins[s].clockPin
                        THEN WireShift(wire[s], port[StripPins[s].dataPin])
                        ELSE wire[s]]
        /\ UNCHANGED mode

\* pinMode(pin, OUTPUT): the pin drives the level of its output register bit.
pinMode(t, pin, m) ==
    /\ mode' = [mode EXCEPT ![pin] = m]
    /\ cur' = [cur EXCEPT ![t] = Append(@, <<"pinMode", pin, m>>)]
    /\ UNCHANGED <<port, sr, nbits, out, tail, wire>>

\* ------------------------------------------------------------------- init

\* init(), default build: digitalWrite(dataPin, LOW); pinMode(dataPin, OUTPUT);
\* digitalWrite(clockPin, LOW); pinMode(clockPin, OUTPUT);
\* Faulty variant: the data pin is made an output before its level is set.
init_data_output_first(t) ==
    /\ At(t, "init", 0)
    /\ pinMode(t, dataPin(t), "OUTPUT")
    /\ Goto(t, 1)
    /\ inits' = [inits EXCEPT ![t][ci[t]] = @ + 1]
    /\ UNCHANGED <<prog, ci, gpio>>

init_data_low(t) ==
    /\ At(t, "init", 0)
    /\ digitalWrite(t, dataPin(t), LOW)
    /\ Goto(t, 1)
    /\ inits' = [inits EXCEPT ![t][ci[t]] = @ + 1]
    /\ UNCHANGED <<prog, ci, gpio>>

init_data_output(t) ==
    /\ At(t, "init", 1)
    /\ pinMode(t, dataPin(t), "OUTPUT")
    /\ Goto(t, 2)
    /\ UNCHANGED <<prog, ci, gpio, inits>>

init_clock_low(t) ==
    /\ At(t, "init", 2)
    /\ digitalWrite(t, clockPin(t), LOW)
    /\ Goto(t, 3)
    /\ UNCHANGED <<prog, ci, gpio, inits>>

\* Faulty variant: the data pin is made an output a second time, the clock
\* pin never.
init_clock_output_data(t) ==
    /\ At(t, "init", 3)
    /\ pinMode(t, dataPin(t), "OUTPUT")
    /\ Goto(t, 4)
    /\ UNCHANGED <<prog, ci, gpio, inits>>

init_clock_output(t) ==
    /\ At(t, "init", 3)
    /\ pinMode(t, clockPin(t), "OUTPUT")
    /\ Goto(t, 4)
    /\ UNCHANGED <<prog, ci, gpio, inits>>

\* --------------------------------------------------------------- transfer

\* The unrolled body of transfer(b) is 8 groups of 3 statements; statement
\* pc belongs to group pc \div 3, which sends bit 7 - pc \div 3 of b.
\* Faulty variant: least significant bit first.
TransferShiftLsbFirst(pc) == pc \div 3

\* Faulty variant: bit 6 first, bit 7 last.
TransferShiftFromSix(pc) == (6 - (pc \div 3)) % UINT8_BITS

TransferShift(pc) == 7 - (pc \div 3)

\* Number of statements of transfer: 8 bits, 3 statements each.
TransferEnd == 24

\* digitalWrite(dataPin, b >> k & 1)
transfer_data(t) ==
    /\ stk[t] # <<>> /\ Top(t).fn = "transfer"
    /\ Top(t).pc < TransferEnd /\ Top(t).pc % 3 = 0
    /\ digitalWrite(t, dataPin(t), Bit(Top(t).b, TransferShift(Top(t).pc)))
    /\ Goto(t, Top(t).pc + 1)
    /\ UNCHANGED <<prog, ci, gpio, inits>>

\* digitalWrite(clockPin, HIGH)
transfer_clock_high(t) ==
    /\ stk[t] # <<>> /\ Top(t).fn = "transfer"
    /\ Top(t).pc < TransferEnd /\ Top(t).pc % 3 = 1
    /\ digitalWrite(t, clockPin(t), HIGH)
    /\ Goto(t, Top(t).pc + 1)
    /\ UNCHANGED <<prog, ci, gpio, inits>>

\* Faulty variant: the clock is not lowered after the last bit.
transfer_clock_low_but_last(t) ==
    /\ stk[t] # <<>> /\ Top(t).fn = "transfer"
    /\ Top(t).pc < TransferEnd /\ Top(t).pc % 3 = 2
    /\ digitalWrite(t, clockPin(t), IF Top(t).pc = TransferEnd - 1 THEN HIGH ELSE LOW)
    /\ Goto(t, Top(t).pc + 1)
    /\ UNCHANGED <<prog, ci, gpio, inits>>

\* digitalWrite(clockPin, LOW)
transfer_clock_low(t) ==
    /\ stk[t] # <<>> /\ Top(t).fn = "transfer"
    /\ Top(t).pc < TransferEnd /\ Top(t).pc % 3 = 2
    /\ digitalWrite(t, clockPin(t), LOW)
    /\ Goto(t, Top(t).pc + 1)
    /\ UNCHANGED <<prog, ci, gpio, inits>>

\* Frames of the two protected functions.
InitFrame(s) == [NoFrame EXCEPT !.fn = "init", !.strip = s]
TransferFrame(s, b) == [NoFrame EXCEPT !.fn = "transfer", !.strip = s, !.b = b]

\* ------------------------------------------------------------- startFrame

\* Faulty variant: startFrame without init.
startFrame_no_init(t) ==
    /\ At(t, "startFrame", 0)
    /\ Goto(t, 1)
    /\ NoGpio
    /\ UNCHANGED <<prog, ci, gpio, inits>>

\* Faulty variant: startFrame keeps track of the strip, and runs init only
\* while the pins are not outputs yet.
startFrame_init_once(t) ==
    /\ At(t, "startFrame", 0)
    /\ IF mode[dataPin(t)] = "OUTPUT" /\ mode[clockPin(t)] = "OUTPUT"
       THEN Goto(t, 1)
       ELSE Call(t, 1, InitFrame(Top(t).strip))
    /\ NoGpio
    /\ UNCHANGED <<prog, ci, gpio, inits>>

\* init();
startFrame_init(t) ==
    /\ At(t, "startFrame", 0)
    /\ Call(t, 1, InitFrame(Top(t).strip))
    /\ NoGpio
    /\ UNCHANGED <<prog, ci, gpio, inits>>

\* Number of transfer(0) statements of startFrame.
StartFrameZeros == 4

\* Faulty variant: three transfer(0) statements only.
startFrame_transfer_three(t) ==
    /\ stk[t] # <<>> /\ Top(t).fn = "startFrame"
    /\ Top(t).pc \in 1..StartFrameZeros
    /\ Call(t, IF Top(t).pc = 1 THEN 3 ELSE Top(t).pc + 1, TransferFrame(Top(t).strip, 0))
    /\ NoGpio
    /\ UNCHANGED <<prog, ci, gpio, inits>>

\* transfer(0); four times
startFrame_transfer(t) ==
    /\ stk[t] # <<>> /\ Top(t).fn = "startFrame"
    /\ Top(t).pc \in 1..StartFrameZeros
    /\ Call(t, Top(t).pc + 1, TransferFrame(Top(t).strip, 0))
    /\ NoGpio
    /\ UNCHANGED <<prog, ci, gpio, inits>>

StartFrameFrame(s) == [NoFrame EXCEPT !.fn = "startFrame", !.strip = s]

\* --------------------------------------------------------------- endFrame

\* transfer(0xFF);
EndFrameMarker == 255

\* Faulty variant: the 0xFF byte is left out.
endFrame_no_marker(t) ==
    /\ At(t, "endFrame", 0)
    /\ Goto(t, 1)
    /\ NoGpio
    /\ UNCHANGED <<prog, ci, gpio, inits>>

endFrame_marker(t) ==
    /\ At(t, "endFrame", 0)
    /\ Call(t, 1, TransferFrame(Top(t).strip, EndFrameMarker))
    /\ NoGpio
    /\ UNCHANGED <<prog, ci, gpio, inits>>

\* Faulty variants of the loop bound: the quotient rounded up, and a
\* four-byte pad.
EndFrameZerosRoundUp(count) == (5 + (count + 15) \div 16) % Pow2(UINT16_BITS)
EndFrameZerosFour(count) == (4 + count \div 16) % Pow2(UINT16_BITS)

\* The loop bound 5 + count / 16.  count is a uint16_t; where int is 16 bits
\* wide (AVR) the sum is computed in unsigned int, modulo 2^16.
EndFrameZeros(count) == (5 + count \div 16) % Pow2(UINT16_BITS)

\* for (uint16_t i = 0; ...
endFrame_loop_init(t) ==
    /\ At(t, "endFrame", 1)
    /\ stk' = [stk EXCEPT ![t][Len(stk[t])].i = 0, ![t][Len(stk[t])].pc = 2]
    /\ NoGpio
    /\ UNCHANGED <<prog, ci, gpio, inits>>

\* ... i < 5 + count / 16; ...) { transfer(0); }
endFrame_loop_body(t) ==
    /\ At(t, "endFrame", 2)
    /\ Top(t).i < EndFrameZeros(Top(t).count)
    /\ Call(t, 3, TransferFrame(Top(t).strip, 0))
    /\ NoGpio
    /\ UNCHANGED <<prog, ci, gpio, inits>>

\* Faulty variant: the loop counter is a uint8_t.
endFrame_loop_incr_uint8(t) ==
    /\ At(t, "endFrame", 3)
    /\ stk' = [stk EXCEPT ![t][Len(stk[t])].i = (@ + 1) % Pow2(UINT8_BITS),
                          ![t][Len(stk[t])].pc = 2]
    /\ NoGpio
    /\ UNCHANGED <<prog, ci, gpio, inits>>

\* ... i++)
endFrame_loop_incr(t) ==
    /\ At(t, "endFrame", 3)
    /\ stk' = [stk EXCEPT ![t][Len(stk[t])].i = (@ + 1) % Pow2(UINT16_BITS),
                          ![t][Len(stk[t])].pc = 2]
    /\ NoGpio
    /\ UNCHANGED <<prog, ci, gpio, inits>>

endFrame_loop_exit(t) ==
    /\ At(t, "endFrame", 2)
    /\ ~(Top(t).i < EndFrameZeros(Top(t).count))
    /\ Goto(t, 4)
    /\ NoGpio
    /\ UNCHANGED <<prog, ci, gpio, inits>>

EndFrameFrame(s, count) == [NoFrame EXCEPT !.fn = "endFrame", !.strip = s, !.count = count]

\* -------------------------------------------------------------- sendColor

\* The constant 0b11100000 of the first byte of an LED word.
BrightnessHeader == 224

\* Faulty variant: a brightness above 31 saturates to 31.
BrightnessByteSaturated(brightness) ==
    BitOr(BrightnessHeader, IF brightness > 31 THEN 31 ELSE brightness) % Pow2(UINT8_BITS)

\* The argument of transfer(0b11100000 | brightness), converted to uint8_t.
BrightnessByte(brightness) == BitOr(BrightnessHeader, brightness) % Pow2(UINT8_BITS)

\* Faulty variant: the channels sent in the order red, green, blue.
SendColorByteRGB(f, pc) ==
    CASE pc = 0 -> BrightnessByte(f.brightness)
      [] pc = 1 -> f.red
      [] pc = 2 -> f.green
      [] pc = 3 -> f.blue

\* The argument of the pc-th transfer of sendColor(red, green, blue, brightness).
SendColorByte(f, pc) ==
    CASE pc = 0 -> BrightnessByte(f.brightness)
      [] pc = 1 -> f.blue
      [] pc = 2 -> f.green
      [] pc = 3 -> f.red

\* Number of transfer statements of sendColor(red, green, blue, brightness).
SendColorBytes == 4

\* transfer(0b11100000 | brightness); transfer(blue); transfer(green); transfer(red);
sendColor_transfer(t) ==
    /\ stk[t] # <<>> /\ Top(t).fn = "sendColor"
    /\ Top(t).pc < SendColorBytes
    /\ Call(t, Top(t).pc + 1, TransferFrame(Top(t).strip, SendColorByte(Top(t), Top(t).pc)))
    /\ NoGpio
    /\ UNCHANGED <<prog, ci, gpio, inits>>

SendColorFrame(s, red, green, blue, brightness) ==
    [NoFrame EXCEPT !.fn = "sendColor", !.strip = s, !.red = red, !.green = green,
                    !.blue = blue, !.brightness = brightness]

\* Faulty variant: the overload taking an rgb_color drops its brightness.
sendColor_rgb_call_no_brightness(t) ==
    /\ At(t, "sendColor_rgb", 0)
    /\ Call(t, 1, SendColorFrame(Top(t).strip, Top(t).color.red, Top(t).color.green,
                                 Top(t).color.blue, DefaultBrightness))
    /\ NoGpio
    /\ UNCHANGED <<prog, ci, gpio, inits>>

\* sendColor(rgb_color color, uint8_t brightness):
\* sendColor(color.red, color.green, color.blue, brightness);
sendColor_rgb_call(t) ==
    /\ At(t, "sendColor_rgb", 0)
    /\ Call(t, 1, SendColorFrame(Top(t).strip, Top(t).color.red, Top(t).color.green,
                                 Top(t).color.blue, Top(t).brightness))
    /\ NoGpio
    /\ UNCHANGED <<prog, ci, gpio, inits>>

SendColorRgbFrame(s, color, brightness) ==
    [NoFrame EXCEPT !.fn = "sendColor_rgb", !.strip = s, !.color = color,
                    !.brightness = brightness]

\* ------------------------------------------------------------------ write

\* startFrame();
write_startFrame(t) ==
    /\ At(t, "write", 0)
    /\ Call(t, 1, StartFrameFrame(Top(t).strip))
    /\ NoGpio
    /\ UNCHANGED <<prog, ci, gpio, inits>>

\* for(uint16_t i = 0; ...
write_loop_init(t) ==
    /\ At(t, "write", 1)
    /\ stk' = [stk EXCEPT ![t][Len(stk[t])].i = 0, ![t][Len(stk[t])].pc = 2]
    /\ NoGpio
    /\ UNCHANGED <<prog, ci, gpio, inits>>

\* Faulty variant: write sends each color without its brightness argument.
write_loop_body_no_brightness(t) ==
    /\ At(t, "write", 2)
    /\ Top(t).i < Top(t).count
    /\ Call(t, 3, SendColorRgbFrame(Top(t).strip, Top(t).colors[Top(t).i + 1],
                                    DefaultBrightness))
    /\ NoGpio
    /\ UNCHANGED <<prog, ci, gpio, inits>>

\* Faulty variant: the array is sent from its last element to its first.
write_loop_body_reversed(t) ==
    /\ At(t, "write", 2)
    /\ Top(t).i < Top(t).count
    /\ Call(t, 3, SendColorRgbFrame(Top(t).strip, Top(t).colors[Top(t).count - Top(t).i],
                                    Top(t).brightness))
    /\ NoGpio
    /\ UNCHANGED <<prog, ci, gpio, inits>>

\* Faulty variant: the loop body runs once before the first test (do-while);
\* an element read past the end of the array is whatever the memory holds.
write_loop_body_do_while(t) ==
    /\ At(t, "write", 2)
    /\ Top(t).i < Top(t).count \/ Top(t).i = 0
    /\ \E c \in IF Top(t).i + 1 \in DOMAIN Top(t).colors
                 THEN {Top(t).colors[Top(t).i + 1]}
                 ELSE {rgb_color(0, 0, 0), rgb_color(255, 255, 255)} :
          Call(t, 3, SendColorRgbFrame(Top(t).strip, c, Top(t).brightness))
    /\ NoGpio
    /\ UNCHANGED <<prog, ci, gpio, inits>>

\* ... i < count; ...) { sendColor(colors[i], brightness); }
write_loop_body(t) ==
    /\ At(t, "write", 2)
    /\ Top(t).i < Top(t).count
    /\ Call(t, 3, SendColorRgbFrame(Top(t).strip, Top(t).colors[Top(t).i + 1],
                                    Top(t).brightness))
    /\ NoGpio
    /\ UNCHANGED <<prog, ci, gpio, inits>>

\* ... i++)
write_loop_incr(t) ==
    /\ At(t, "write", 3)
    /\ stk' = [stk EXCEPT ![t][Len(stk[t])].i = (@ + 1) % Pow2(UINT16_BITS),
                          ![t][Len(stk[t])].pc = 2]
    /\ NoGpio
    /\ UNCHANGED <<prog, ci, gpio, inits>>

write_loop_exit(t) ==
    /\ At(t, "write", 2)
    /\ ~(Top(t).i < Top(t).count)
    /\ Goto(t, 4)
    /\ NoGpio
    /\ UNCHANGED <<prog, ci, gpio, inits>>

\* endFrame(count);
write_endFrame(t) ==
    /\ At(t, "write", 4)
    /\ Call(t, 5, EndFrameFrame(Top(t).strip, Top(t).count))
    /\ NoGpio
    /\ UNCHANGED <<prog, ci, gpio, inits>>

WriteFrame(s, colors, count, brightness) ==
    [NoFrame EXCEPT !.fn = "write", !.strip = s, !.colors = colors, !.count = count,
                    !.brightness = brightness]

\* ----------------------------------------------------------- call, return

\* The pc after the last statement of each function.
EndPc(fn) ==
    CASE fn = "init" -> 4
      [] fn = "transfer" -> TransferEnd
      [] fn = "startFrame" -> StartFrameZeros + 1
      [] fn = "endFrame" -> 4
      [] fn = "sendColor" -> SendColorBytes
      [] fn = "sendColor_rgb" -> 1
      [] fn = "write" -> 5

\* A function returns to its caller.  A returning init or transfer closes
\* its chunk of the GPIO log; the return of the outermost function ends the
\* call of the program.
return(t) ==
    /\ stk[t] # <<>>
    /\ Top(t).pc = EndPc(Top(t).fn)
    /\ stk' = [stk EXCEPT ![t] = SubSeq(@, 1, Len(@) - 1)]
    /\ ci' = [ci EXCEPT ![t] = IF Len(stk[t]) = 1 THEN @ + 1 ELSE @]
    /\ IF Top(t).fn \in {"init", "transfer"}
       THEN /\ gpio' = [gpio EXCEPT ![t][ci[t]] = RleAdd(@, cur[t])]
            /\ cur' = [cur EXCEPT ![t] = <<>>]
       ELSE UNCHANGED <<gpio, cur>>
    /\ UNCHANGED <<prog, mode, port, sr, nbits, out, tail, inits, wire>>

\* A call of the program: [op, strip, colors, count, color, red, green, blue,
\* brightness], brightness being <<>> when the caller leaves it out.  The
\* library takes no lock; locked tells that the caller makes the call under
\* a lock of its own, which it shares with the other callers.
NoCall ==
    [op |-> "", strip |-> 1, colors |-> <<>>, count |-> 0, color |-> NoColor,
     red |-> 0, green |-> 0, blue |-> 0, brightness |-> <<>>, locked |-> FALSE]

CallWrite(s, colors, count, brightness) ==
    [NoCall EXCEPT !.op = "write", !.strip = s, !.colors = colors, !.count = count,
                   !.brightness = brightness]
CallStartFrame(s) == [NoCall EXCEPT !.op = "startFrame", !.strip = s]
CallEndFrame(s, count) == [NoCall EXCEPT !.op = "endFrame", !.strip = s, !.count = count]
CallSendColor(s, red, green, blue, brightness) ==
    [NoCall EXCEPT !.op = "sendColor", !.strip = s, !.red = red, !.green = green,
                   !.blue = blue, !.brightness = brightness]
CallSendColorRgb(s, color, brightness) ==
    [NoCall EXCEPT !.op = "sendColor_rgb", !.strip = s, !.color = color,
                   !.brightness = brightness]

\* The frame a call of a public operation starts with: its parameters bound
\* to the arguments, brightness to its default when left out.
FrameOf(c) ==
    CASE c.op = "write" ->
            WriteFrame(c.strip, c.colors, c.count, ArgOr(c.brightness, DefaultBrightness))
      [] c.op = "startFrame" -> StartFrameFrame(c.strip)
      [] c.op = "endFrame" -> EndFrameFrame(c.strip, c.count)
      [] c.op = "sendColor" ->
            SendColorFrame(c.strip, c.red, c.green, c.blue,
                           ArgOr(c.brightness, DefaultBrightness))
      [] c.op = "sendColor_rgb" ->
            SendColorRgbFrame(c.strip, c.color, ArgOr(c.brightness, DefaultBrightness))

\* Faulty variant: the caller's lock is ignored.
invoke_unlocked(t) ==
    /\ stk[t] = <<>>
    /\ ci[t] <= Len(prog[t])
    /\ stk' = [stk EXCEPT ![t] = <<FrameOf(prog[t][ci[t]])>>]
    /\ NoGpio
    /\ UNCHANGED <<prog, ci, gpio, inits>>

\* The caller makes the next call of its program; a caller that serializes
\* its calls waits until no other caller is inside one.
invoke(t) ==
    /\ stk[t] = <<>>
    /\ ci[t] <= Len(prog[t])
    /\ prog[t][ci[t]].locked => \A u \in Threads \ {t} : stk[u] = <<>>
    /\ stk' = [stk EXCEPT ![t] = <<FrameOf(prog[t][ci[t]])>>]
    /\ NoGpio
    /\ UNCHANGED <<prog, ci, gpio, inits>>

\* ----------------------------------------------------------------- inputs

\* Colors whose channels differ, so that a swapped channel shows.
Palette == {rgb_color(1, 2, 3), rgb_color(255, 0, 128)}

\* Brightness arguments: inside 0..31, outside it, and left out.
Brightnesses == {0, 1, 31, 32, 100, 255}
BrightnessArgs == {<<>>} \cup {<<b>> : b \in Brightnesses}
WriteBrightnessArgs == {<<>>, <<1>>, <<100>>}
FewBrightnessArgs == {<<>>, <<5>>}

\* Color arrays of up to MaxLeds elements.
Arrays == UNION {[1..n -> Palette] : n \in 0..MaxLeds}

\* Strip lengths around the multiples of 16, where 5 + count / 16 steps.
LongCounts == {15, 16, 17, 31, 32, 33}

\* The array of n colors that repeats pat.
Periodic(pat, n) == [i \in 1..n |-> pat[((i - 1) % Len(pat)) + 1]]
Pattern == <<rgb_color(1, 2, 3), rgb_color(255, 0, 128), rgb_color(16, 32, 64)>>

WriteCalls ==
    UNION {{CallWrite(s, a, n, b) : n \in 0..Len(a), b \in WriteBrightnessArgs} :
           s \in Strips, a \in Arrays}
LongWriteCalls == {CallWrite(s, Periodic(Pattern, n), n, <<7>>) : s \in Strips, n \in LongCounts}
StartFrameCalls == {CallStartFrame(s) : s \in Strips}
EndFrameCalls == {CallEndFrame(s, n) : s \in Strips, n \in (0..MaxLeds) \cup LongCounts}
SendColorCalls ==
    {CallSendColor(s, c.red, c.green, c.blue, b) : s \in Strips, c \in Palette, b \in BrightnessArgs}
SendColorRgbCalls == {CallSendColorRgb(s, c, b) : s \in Strips, c \in Palette, b \in BrightnessArgs}

\* The two writes of the end-to-end examples, brightness 31 given.
ExampleCalls ==
    {CallWrite(s, a, Len(a), <<DefaultBrightness>>) :
        s \in Strips, a \in {<<>>, <<rgb_color(1, 2, 3)>>}}

Calls ==
    WriteCalls \cup LongWriteCalls \cup StartFrameCalls \cup EndFrameCalls
    \cup SendColorCalls \cup SendColorRgbCalls \cup ExampleCalls

\* The calls that programs of several calls are made of.
FewCalls ==
    StartFrameCalls
    \cup {CallEndFrame(s, 1) : s \in Strips}
    \cup {CallSendColor(s, 1, 2, 3, b) : s \in Strips, b \in FewBrightnessArgs}
    \cup {CallSendColorRgb(s, rgb_color(1, 2, 3), b) : s \in Strips, b \in FewBrightnessArgs}
    \cup {CallWrite(s, <<rgb_color(1, 2, 3)>>, 1, <<5>>) : s \in Strips}

\* The low-level sequence startFrame(); sendColor(colors[i], brightness) for
\* i = 0..count-1; endFrame(count), as in the loop() of the Brightness example.
LowLevel(s, colors, count, brightness) ==
    <<CallStartFrame(s)>>
    \o [i \in 1..count |-> CallSendColorRgb(s, colors[i], brightness)]
    \o <<CallEndFrame(s, count)>>

\* write(colors, count, brightness) followed by its low-level sequence.
FramePrograms ==
    {<<CallWrite(s, a, Len(a), b)>> \o LowLevel(s, a, Len(a), b) :
        s \in Strips, a \in Arrays, b \in FewBrightnessArgs}

\* The calls that programs of more than two calls are made of.
CoreCalls ==
    StartFrameCalls
    \cup {CallEndFrame(s, 1) : s \in Strips}
    \cup {CallSendColor(s, 1, 2, 3, <<5>>) : s \in Strips}
    \cup {CallWrite(s, <<rgb_color(1, 2, 3)>>, 1, <<5>>) : s \in Strips}

Programs ==
    {<<c>> : c \in Calls}
    \cup UNION {[1..k -> IF k <= 2 THEN FewCalls ELSE CoreCalls] : k \in 0..MaxCalls}
    \cup FramePrograms

\* One startFrame..endFrame cycle on strip s, by write or by the low-level
\* calls.
Cycles(s, arrays, brightnesses) ==
    UNION {{<<CallWrite(s, a, Len(a), b)>>, LowLevel(s, a, Len(a), b)} :
           <<a, b>> \in arrays \X brightnesses}

\* Two strips on one clock pin, driven one after the other: a complete cycle
\* on one strip, then a complete cycle on the other.
SharedPrograms ==
    UNION {{x \o y :
              <<x, y>> \in
                  {<<CallWrite(s[1], <<rgb_color(255, 0, 128)>>, 1, <<>>)>>,
                   LowLevel(s[1], <<>>, 0, <<>>)}
                  \X Cycles(s[2], {a \in Arrays : Len(a) <= 1}
                                      \cup {Periodic(Pattern, MaxLeds)},
                            FewBrightnessArgs)} :
           s \in {<<1, 2>>, <<2, 1>>}}

\* The permutations of 1..n, and the array a reordered by one of them.
Perms(n) == {f \in [1..n -> 1..n] : \A i, j \in 1..n : i # j => f[i] # f[j]}
Permute(a, f) == [i \in 1..Len(a) |-> a[f[i]]]

\* A write of an array of PermLeds colors (all different as far as the
\* pattern goes, or two colors alternating), then a write of a reordering.
PermPrograms ==
    UNION {{<<CallWrite(s, a, Len(a), b), CallWrite(s, Permute(a, f), Len(a), b)>> :
              f \in Perms(Len(a)), b \in FewBrightnessArgs} :
           <<s, a>> \in Strips \X {Periodic(Pattern, PermLeds),
                                   Periodic(SubSeq(Pattern, 1, 2), PermLeds)}}

\* Two callers of write on the same pin pair, the main program and a context
\* that can preempt it; either both make their call under the callers' lock
\* or neither does.
ConcurrentPrograms ==
    {[t \in Threads |->
        <<[CallWrite(s, IF t = 1 THEN <<rgb_color(1, 2, 3)>> ELSE <<>>,
                     IF t = 1 THEN 1 ELSE 0, <<>>) EXCEPT !.locked = l]>>] :
     s \in Strips, l \in BOOLEAN}

\* endFrame for the longest strip a uint16_t count can name.
MaxPrograms == {<<CallEndFrame(s, UINT16_MAX)>> : s \in Strips}

\* ---------------------------------------------------------- specification

\* The pins before the first call: as after reset (inputs, register 0), or
\* as a sketch may have left them (inputs with pull-ups, or outputs driving
\* high; outputs driving low is how the library itself leaves them).
InitialPins == {<<"INPUT", LOW>>, <<"INPUT", HIGH>>, <<"OUTPUT", HIGH>>}

\* The pins of the strips that the programs pr drive.
UsedPins(pr) ==
    UNION {{StripPins[pr[t][k].strip].dataPin, StripPins[pr[t][k].strip].clockPin} :
           <<t, k>> \in UNION {{<<t, k>> : k \in 1..Len(pr[t])} : t \in Threads}}

\* Before the first call: each thread has its program, the pins that the
\* programs drive are in one of the given configurations and the others as
\* after reset, nothing has been sent.
InitOf(progs, pins) ==
    /\ prog \in progs
    /\ ci = [t \in Threads |-> 1]
    /\ stk = [t \in Threads |-> <<>>]
    /\ \E x \in pins :
        /\ mode = [p \in Pins |-> IF p \in UsedPins(prog) THEN x[1] ELSE "INPUT"]
        /\ port = [p \in Pins |-> IF p \in UsedPins(prog) THEN x[2] ELSE LOW]
    /\ sr = [t \in Threads |-> 0]
    /\ nbits = [t \in Threads |-> 0]
    /\ tail = [t \in Threads |-> 0]
    /\ cur = [t \in Threads |-> <<>>]
    /\ out = [t \in Threads |-> [k \in 1..Len(prog[t]) |-> <<>>]]
    /\ gpio = [t \in Threads |-> [k \in 1..Len(prog[t]) |-> <<>>]]
    /\ inits = [t \in Threads |-> [k \in 1..Len(prog[t]) |-> 0]]
    /\ wire = [s \in AllStrips |-> NoWire]

\* The pins as they are after reset.
ResetPins == {<<"INPUT", LOW>>}

\* Only the main program calls the library.
Solo(programs) == {[t \in Threads |-> IF t = 1 THEN p ELSE <<>>] : p \in programs}

InitWith(programs) == InitOf(Solo(programs), InitialPins)

Init == InitWith(Programs)

Step(t) ==
    \/ invoke(t)
    \/ return(t)
    \/ write_startFrame(t)
    \/ write_loop_init(t)
    \/ write_loop_body(t)
    \/ write_loop_incr(t)
    \/ write_loop_exit(t)
    \/ write_endFrame(t)
    \/ startFrame_init(t)
    \/ startFrame_transfer(t)
    \/ endFrame_marker(t)
    \/ endFrame_loop_init(t)
    \/ endFrame_loop_body(t)
    \/ endFrame_loop_incr(t)
    \/ endFrame_loop_exit(t)
    \/ sendColor_transfer(t)
    \/ sendColor_rgb_call(t)
    \/ init_data_low(t)
    \/ init_data_output(t)
    \/ init_clock_low(t)
    \/ init_clock_output(t)
    \/ transfer_data(t)
    \/ transfer_clock_high(t)
    \/ transfer_clock_low(t)

\* Thread t runs unless a context of higher priority is inside a call: that
\* one has preempted it and runs until its call returns.
Scheduled(t) == \A u \in Threads : u > t => stk[u] = <<>>

Next == \E t \in Threads : Scheduled(t) /\ Step(t)

Spec == Init /\ [][Next]_vars

\* The same program, started on single calls only, endFrame(65535) among them.
InitMax == InitWith(MaxPrograms \cup {<<c>> : c \in EndFrameCalls \cup FewCalls})

SpecMax == InitMax /\ [][Next]_vars

\* A sketch with two strips that share the clock pin.
InitShared == InitWith(SharedPrograms)

SpecShared == InitShared /\ [][Next]_vars

\* A sketch that writes an array and then a reordering of it.
InitPerm == InitWith(PermPrograms)

SpecPerm == InitPerm /\ [][Next]_vars

\* Every call alone, endFrame(65535) among them, run to its end: the caller
\* is not suspended for ever (no step of the library waits for anything).
InitTerm == InitOf(Solo(MaxPrograms \cup {<<c>> : c \in Calls}), ResetPins)

SpecTerm == InitTerm /\ [][Next]_vars /\ WF_vars(Next)

\* Two contexts call write on the same strip.
InitConcurrent == InitOf(ConcurrentPrograms, ResetPins)

SpecConcurrent == InitConcurrent /\ [][Next]_vars

\* ------------------------------------------------------------- properties

\* Call k of thread t has returned.
Returned(t, k) == k \in 1..Len(prog[t]) /\ ci[t] > k

\* Call k of thread t has returned and no later call has begun.
JustReturned(t, k) == Returned(t, k) /\ ci[t] = k + 1 /\ stk[t] = <<>>

CallIds == UNION {{<<t, k>> : k \in 1..Len(prog[t])} : t \in Threads}

\* The calls of op that have returned, with a given brightness argument.
ReturnedCalls(op) ==
    {x \in CallIds : Returned(x[1], x[2]) /\ prog[x[1]][x[2]].op = op}

\* C1: a write of count >= 1 colors with brightness b in 0..31 emits exactly
\* 4 + 4*count + 6 + floor(count/16) bytes: 4 start-frame bytes (zeros), then
\* count 4-byte LED words (each led by a 111 header), then the end frame of
\* 6 + floor(count/16) bytes (0xFF, then zeros).
C1_WriteLength ==
    \A x \in ReturnedCalls("write") :
        LET c == prog[x[1]][x[2]]
            o == out[x[1]][x[2]]
            n == c.count
            total == 4 + 4 * n + 6 + n \div 16
        IN  (n >= 1 /\ c.brightness # <<>> /\ c.brightness[1] \in 0..31) =>
                /\ RleLen(o) = total
                /\ \A j \in 0..3 : RleAt(o, j) = 0
                /\ \A i \in 0..n - 1 : RleAt(o, 4 + 4 * i) \div 32 = 7
                /\ RleAt(o, 4 + 4 * n) = 255
                /\ \A j \in 4 + 4 * n + 1..total - 1 : RleAt(o, j) = 0

\* A write of 33 colors has returned, having emitted 4 + 132 + 8 bytes.
C1_Witness ==
    \E x \in ReturnedCalls("write") :
        /\ prog[x[1]][x[2]].count = 33
        /\ prog[x[1]][x[2]].brightness = <<7>>
        /\ RleLen(out[x[1]][x[2]]) = 144

\* C2: in the stream of a write, the 4 bytes at offset 4 + 4i are
\* (0b111<<5)|b, colors[i].blue, colors[i].green, colors[i].red; and each
\* sendColor call emits exactly those 4 bytes and nothing else.
C2_LedWords ==
    /\ \A x \in ReturnedCalls("write") :
        LET c == prog[x[1]][x[2]]
            o == out[x[1]][x[2]]
        IN  (c.brightness # <<>> /\ c.brightness[1] \in 0..31) =>
                \A i \in 0..c.count - 1 :
                    /\ RleAt(o, 4 + 4 * i) = 224 + c.brightness[1]
                    /\ RleAt(o, 4 + 4 * i + 1) = c.colors[i + 1].blue
                    /\ RleAt(o, 4 + 4 * i + 2) = c.colors[i + 1].green
                    /\ RleAt(o, 4 + 4 * i + 3) = c.colors[i + 1].red
    /\ \A x \in ReturnedCalls("sendColor") :
        LET c == prog[x[1]][x[2]]
        IN  (c.brightness # <<>> /\ c.brightness[1] \in 0..31) =>
                out[x[1]][x[2]] = RleOf(<<224 + c.brightness[1], c.blue, c.green, c.red>>)
    /\ \A x \in ReturnedCalls("sendColor_rgb") :
        LET c == prog[x[1]][x[2]]
        IN  (c.brightness # <<>> /\ c.brightness[1] \in 0..31) =>
                out[x[1]][x[2]] =
                    RleOf(<<224 + c.brightness[1], c.color.blue, c.color.green, c.color.red>>)

\* A write of two different colors with brightness 1 has returned, the
\* second color's blue channel at offset 9 of its stream.
C2_Witness ==
    \E x \in ReturnedCalls("write") :
        LET c == prog[x[1]][x[2]]
        IN  /\ c.count = 2 /\ c.brightness = <<1>>
            /\ c.colors[1] # c.colors[2]
            /\ RleAt(out[x[1]][x[2]], 9) = c.colors[2].blue

\* C3: endFrame(count) emits one 0xFF byte, then exactly 5 + floor(count/16)
\* bytes of 0x00, and nothing else, for every count up to 65535; so in a
\* write the byte right after the last LED word is 0xFF.
C3_EndFrameBytes ==
    /\ \A x \in ReturnedCalls("endFrame") :
        out[x[1]][x[2]] =
            <<[v |-> 255, n |-> 1], [v |-> 0, n |-> 5 + prog[x[1]][x[2]].count \div 16]>>
    /\ \A x \in ReturnedCalls("write") :
        RleAt(out[x[1]][x[2]], 4 + 4 * prog[x[1]][x[2]].count) = 255

\* endFrame(65535) has returned, having emitted 0xFF and 4100 zero bytes.
C3_Witness ==
    \E x \in ReturnedCalls("endFrame") :
        /\ prog[x[1]][x[2]].count = 65535
        /\ RleLen(out[x[1]][x[2]]) = 4101

\* The pins of the strip that call k of thread t drives.
DataPinOf(t, k) == StripPins[prog[t][k].strip].dataPin
ClockPinOf(t, k) == StripPins[prog[t][k].strip].clockPin

\* Both pins of the strip are outputs / both output registers are low.
BothOutputs(t, k) == mode[DataPinOf(t, k)] = "OUTPUT" /\ mode[ClockPinOf(t, k)] = "OUTPUT"
BothLow(t, k) == port[DataPinOf(t, k)] = LOW /\ port[ClockPinOf(t, k)] = LOW

\* An earlier call of thread t ran init on the strip of call k.
InitBefore(t, k) ==
    \E j \in 1..k - 1 :
        /\ prog[t][j].op \in {"startFrame", "write"}
        /\ prog[t][j].strip = prog[t][k].strip

C5_Expected(b, d, c, j) ==
    CASE (j - 1) % 3 = 0 -> <<"digitalWrite", d, Bit(b, 7 - (j - 1) \div 3)>>
      [] (j - 1) % 3 = 1 -> <<"digitalWrite", c, HIGH>>
      [] (j - 1) % 3 = 2 -> <<"digitalWrite", c, LOW>>

\* C5: transfer(b) issues exactly 8 clock pulses; before the k-th pulse
\* (k = 0..7) it sets the data line to bit 7 - k of b and does not write it
\* again until the clock has been lowered: every operation it issues is the
\* one that sequence has at its place, the 24 operations issued when it ends
\* are that sequence, and while the clock is raised the data line holds the
\* bit being sent.
C5_TransferPulses ==
    \A t \in Threads :
        (stk[t] # <<>> /\ Top(t).fn = "transfer") =>
            LET f == Top(t)
            IN  /\ f.pc <= 24
                /\ Len(cur[t]) = f.pc
                /\ f.pc > 0 =>
                       cur[t][f.pc] = C5_Expected(f.b, dataPin(t), clockPin(t), f.pc)
                /\ f.pc = 24 =>
                       \A j \in 1..24 :
                           cur[t][j] = C5_Expected(f.b, dataPin(t), clockPin(t), j)
                /\ f.pc % 3 = 2 =>
                       /\ port[clockPin(t)] = HIGH
                       /\ port[dataPin(t)] = Bit(f.b, 7 - f.pc \div 3)

\* transfer(128) has issued all its 24 operations: 8 pulses.
C5_Witness ==
    \E t \in Threads :
        /\ At(t, "transfer", 24)
        /\ Top(t).b = 128
        /\ Len(cur[t]) = 24

\* The GPIO operations of init on the strip of call k of thread t.
C6_InitOps(t, k) ==
    <<<<"digitalWrite", DataPinOf(t, k), LOW>>, <<"pinMode", DataPinOf(t, k), "OUTPUT">>,
      <<"digitalWrite", ClockPinOf(t, k), LOW>>, <<"pinMode", ClockPinOf(t, k), "OUTPUT">>>>

\* C6: startFrame runs init first, once, and then emits exactly four 0x00
\* bytes; no other operation runs init; so a write starts with 00 00 00 00,
\* and every clock pulse of a frame finds both pins outputs.
C6_StartFrame ==
    /\ \A x \in ReturnedCalls("startFrame") :
        /\ out[x[1]][x[2]] = <<[v |-> 0, n |-> 4]>>
        /\ inits[x[1]][x[2]] = 1
        /\ Len(gpio[x[1]][x[2]]) = 2
        /\ gpio[x[1]][x[2]][1] = [v |-> C6_InitOps(x[1], x[2]), n |-> 1]
        /\ gpio[x[1]][x[2]][2].n = 4
    /\ \A x \in ReturnedCalls("write") :
        /\ inits[x[1]][x[2]] = 1
        /\ gpio[x[1]][x[2]][1] = [v |-> C6_InitOps(x[1], x[2]), n |-> 1]
        /\ \A j \in 0..3 : RleAt(out[x[1]][x[2]], j) = 0
    /\ \A x \in ReturnedCalls("endFrame") \cup ReturnedCalls("sendColor")
                \cup ReturnedCalls("sendColor_rgb") :
        inits[x[1]][x[2]] = 0
    /\ \A t \in Threads :
        (/\ stk[t] # <<>>
         /\ stk[t][1].fn \in {"startFrame", "write"}
         /\ Top(t).fn = "transfer") => BothOutputs(t, ci[t])

\* A startFrame has returned: one init, then four zero bytes.
C6_Witness ==
    \E x \in ReturnedCalls("startFrame") :
        /\ inits[x[1]][x[2]] = 1
        /\ RleLen(out[x[1]][x[2]]) = 4

\* C7: for every 8-bit brightness passed to sendColor or write, the first
\* byte of each LED word is 0b11100000 | (brightness mod 32).
C7_BrightnessMasked ==
    /\ \A x \in ReturnedCalls("sendColor") \cup ReturnedCalls("sendColor_rgb") :
        LET c == prog[x[1]][x[2]]
        IN  c.brightness # <<>> =>
                RleAt(out[x[1]][x[2]], 0) = 224 + (c.brightness[1] % 32)
    /\ \A x \in ReturnedCalls("write") :
        LET c == prog[x[1]][x[2]]
        IN  c.brightness # <<>> =>
                \A i \in 0..c.count - 1 :
                    RleAt(out[x[1]][x[2]], 4 + 4 * i) = 224 + (c.brightness[1] % 32)

\* sendColor with brightness 100 has returned; its first byte is 0xE4.
C7_Witness ==
    \E x \in ReturnedCalls("sendColor") :
        /\ prog[x[1]][x[2]].brightness = <<100>>
        /\ RleAt(out[x[1]][x[2]], 0) = 228

\* C8: for every count >= 1, the zero bytes endFrame(count) sends after the
\* 0xFF byte make at least 65 + (count - 1) clock edges, hence also at least
\* count - 1.
C8_EndFramePadding ==
    \A t \in Threads : \A k \in 1..Len(prog[t]) :
        (/\ JustReturned(t, k)
         /\ prog[t][k].op \in {"endFrame", "write"}
         /\ prog[t][k].count >= 1) =>
            /\ tail[t] >= 65 + (prog[t][k].count - 1)
            /\ tail[t] >= prog[t][k].count - 1

\* endFrame(65535) has returned with 65600 clock edges after its 0xFF byte.
C8_Witness ==
    \E t \in Threads :
        /\ JustReturned(t, 1)
        /\ prog[t][1].op = "endFrame" /\ prog[t][1].count = 65535
        /\ tail[t] = 65600

\* The concatenation of the run-length logs logs[a], ..., logs[b].
RECURSIVE CatRange(_, _, _)
CatRange(logs, a, b) ==
    IF a > b THEN <<>> ELSE RleCat(logs[a], CatRange(logs, a + 1, b))

\* Call k of thread t is a write that is followed by its low-level sequence,
\* all of it returned.
C9_Pair(t, k) ==
    /\ prog[t][k].op = "write"
    /\ k + prog[t][k].count + 2 <= Len(prog[t])
    /\ SubSeq(prog[t], k + 1, k + prog[t][k].count + 2) =
           LowLevel(prog[t][k].strip, prog[t][k].colors, prog[t][k].count,
                    prog[t][k].brightness)
    /\ Returned(t, k + prog[t][k].count + 2)

\* C9: write(colors, count, brightness) issues exactly the GPIO operations
\* (and so emits the bytes) of startFrame(); sendColor(colors[i], brightness)
\* for i = 0..count-1; endFrame(count).
C9_WriteIsLowLevel ==
    \A t \in Threads : \A k \in 1..Len(prog[t]) :
        C9_Pair(t, k) =>
            /\ gpio[t][k] = CatRange(gpio[t], k + 1, k + prog[t][k].count + 2)
            /\ out[t][k] = CatRange(out[t], k + 1, k + prog[t][k].count + 2)

\* A write of two different colors with brightness 5 and its low-level
\* sequence have both returned.
C9_Witness ==
    \E t \in Threads :
        /\ Len(prog[t]) = 5
        /\ C9_Pair(t, 1)
        /\ prog[t][1].count = 2
        /\ prog[t][1].brightness = <<5>>
        /\ prog[t][1].colors[1] # prog[t][1].colors[2]
        /\ RleLen(out[t][1]) = 18

\* C10: sendColor(r, g, b, brightness) and sendColor({r, g, b}, brightness)
\* emit the same bytes, and with brightness left out both emit the word of
\* brightness 31 (first byte 0xFF), whatever was called before.
C10_Overloads ==
    /\ \A x \in ReturnedCalls("sendColor") : \A y \in ReturnedCalls("sendColor_rgb") :
        LET c == prog[x[1]][x[2]]
            d == prog[y[1]][y[2]]
        IN  (rgb_color(c.red, c.green, c.blue) = d.color /\ c.brightness = d.brightness) =>
                out[x[1]][x[2]] = out[y[1]][y[2]]
    /\ \A x \in ReturnedCalls("sendColor") :
        LET c == prog[x[1]][x[2]]
        IN  c.brightness = <<>> => out[x[1]][x[2]] = RleOf(<<255, c.blue, c.green, c.red>>)
    /\ \A x \in ReturnedCalls("sendColor_rgb") :
        LET c == prog[x[1]][x[2]]
        IN  c.brightness = <<>> =>
                out[x[1]][x[2]] = RleOf(<<255, c.color.blue, c.color.green, c.color.red>>)

\* sendColor(1, 2, 3, 5) and then sendColor({1, 2, 3}, 5) have returned.
C10_Witness ==
    \E t \in Threads :
        /\ Returned(t, 2)
        /\ prog[t][1] = CallSendColor(1, 1, 2, 3, <<5>>)
        /\ prog[t][2] = CallSendColorRgb(1, rgb_color(1, 2, 3), <<5>>)
        /\ out[t][1] = out[t][2]

\* The last call k of the first cycle of thread t's program, or 0: the
\* program begins with a startFrame..endFrame cycle (or a write) on one
\* strip, and from call k + 1 on it drives other strips only.
C11_FirstCycle(t) ==
    IF prog[t] = <<>> \/ prog[t][1].op \notin {"startFrame", "write"} THEN 0
    ELSE LET a == prog[t][1].strip
             ends == {k \in 1..Len(prog[t]) :
                        /\ prog[t][k].op \in {"endFrame", "write"}
                        /\ \A j \in 1..k : prog[t][j].strip = a
                        /\ \A j \in k + 1..Len(prog[t]) : prog[t][j].strip # a}
         IN  IF ends = {} THEN 0 ELSE CHOOSE k \in ends : TRUE

\* The bytes that the calls a..b of thread t have clocked out so far.
C11_Bytes(t, a, b) == RleLen(CatRange(out[t], a, b))

\* C11: two strips A and B on different data pins share the clock pin.  Once
\* A's cycle has completed, during the whole of B's cycle no operation
\* addresses A's data pin, which stays an output driving low, and every
\* clock pulse of B's frame shifts a 0 into strip A: what A has sampled is
\* its own frame followed by one zero bit for each bit of B's frame.
C11_SharedClock ==
    \A t \in Threads :
        LET k == C11_FirstCycle(t)
            a == StripPins[prog[t][1].strip]
            n == C11_Bytes(t, k + 1, Len(prog[t]))
        IN  (k > 0 /\ ci[t] > k /\ k < Len(prog[t])) =>
                /\ \A j \in k + 1..Len(prog[t]) :
                       /\ StripPins[prog[t][j].strip].clockPin = a.clockPin
                       /\ StripPins[prog[t][j].strip].dataPin # a.dataPin
                       /\ \A i \in 1..Len(gpio[t][j]) : \A m \in 1..Len(gpio[t][j][i].v) :
                              gpio[t][j][i].v[m][2] # a.dataPin
                /\ \A m \in 1..Len(cur[t]) : cur[t][m][2] # a.dataPin
                /\ mode[a.dataPin] = "OUTPUT" /\ port[a.dataPin] = LOW
                /\ wire[prog[t][1].strip] =
                       [sr |-> 0, n |-> nbits[t],
                        bytes |-> RleCat(CatRange(out[t], 1, k),
                                         IF n = 0 THEN <<>> ELSE <<[v |-> 0, n |-> n]>>)]

\* After a write on strip 1, a write of a non-black color on strip 2 has
\* returned: strip 1 has seen its own 14 bytes and then 14 zero bytes.
C11_Witness ==
    \E t \in Threads :
        /\ Len(prog[t]) = 2 /\ Returned(t, 2)
        /\ prog[t][1].op = "write" /\ prog[t][1].strip = 1
        /\ prog[t][2].op = "write" /\ prog[t][2].strip = 2
        /\ prog[t][2].colors = <<rgb_color(255, 0, 128)>>
        /\ RleLen(wire[1].bytes) = 28
        /\ RleLen(wire[2].bytes) = 28

\* The write of the end-to-end example: one color {red 1, green 2, blue 3},
\* count 1, brightness 31.
C12_Calls ==
    {x \in ReturnedCalls("write") :
        /\ prog[x[1]][x[2]].colors = <<rgb_color(1, 2, 3)>>
        /\ prog[x[1]][x[2]].count = 1
        /\ prog[x[1]][x[2]].brightness = <<31>>}

C12_Stream == <<0, 0, 0, 0, 255, 3, 2, 1, 255, 0, 0, 0, 0, 0>>

\* C12 as stated: write([{1, 2, 3}], 1, 31) emits 00 00 00 00 | FF 03 02 01 |
\* FF 00 00 00 00 00, and that is 20 bytes.
C12_Original ==
    \A x \in C12_Calls :
        /\ out[x[1]][x[2]] = RleOf(C12_Stream)
        /\ RleLen(out[x[1]][x[2]]) = 20

\* C12 (amended): write([{1, 2, 3}], 1, 31) emits 00 00 00 00 | FF 03 02 01 |
\* FF 00 00 00 00 00, which is 14 bytes: 4 start + 4 color + 1 + 5 end-zero.
C12_Example ==
    \A x \in C12_Calls :
        /\ out[x[1]][x[2]] = RleOf(C12_Stream)
        /\ RleLen(out[x[1]][x[2]]) = 14
        /\ RleLen(out[x[1]][x[2]]) = 4 + 4 + 1 + 5

\* The write of the example has returned, FF 03 02 01 at offset 4.
C12_Witness ==
    \E x \in C12_Calls :
        /\ RleAt(out[x[1]][x[2]], 4) = 255
        /\ RleAt(out[x[1]][x[2]], 5) = 3
        /\ RleAt(out[x[1]][x[2]], 7) = 1
        /\ RleLen(out[x[1]][x[2]]) = Len(C12_Stream)

\* C13: write(colors, 0, brightness) reads no element of colors (the one
\* statement that reads colors[i], the call in the loop body, never runs, so
\* no sendColor is ever active in it), emits no LED word, and emits exactly
\* the 10 bytes 00 00 00 00 FF 00 00 00 00 00, for every array and brightness.
C13_EmptyWrite ==
    /\ \A x \in ReturnedCalls("write") :
        prog[x[1]][x[2]].count = 0 =>
            /\ out[x[1]][x[2]] = RleOf(<<0, 0, 0, 0, 255, 0, 0, 0, 0, 0>>)
            /\ RleLen(out[x[1]][x[2]]) = 10
            /\ RleLen(gpio[x[1]][x[2]]) = 1 + 10
    /\ \A t \in Threads :
        (stk[t] # <<>> /\ stk[t][1].fn = "write" /\ stk[t][1].count = 0) =>
            /\ stk[t][1].pc # 3
            /\ stk[t][1].i = 0
            /\ \A d \in 1..Len(stk[t]) : stk[t][d].fn \notin {"sendColor_rgb", "sendColor"}

\* A write with count 0 of an array that has elements, brightness 100, has
\* returned after 10 bytes.
C13_Witness ==
    \E x \in ReturnedCalls("write") :
        /\ prog[x[1]][x[2]].count = 0
        /\ prog[x[1]][x[2]].colors # <<>>
        /\ prog[x[1]][x[2]].brightness = <<100>>
        /\ RleLen(out[x[1]][x[2]]) = 10

\* The bytes at the 0-based offsets a .. b - 1 of a run-length log.
C14_Segment(o, a, b) == [j \in 1..b - a |-> RleAt(o, a + j - 1)]

\* The 4-byte word of LED i (0-based) in the stream of a write.
C14_Word(o, i) == C14_Segment(o, 4 + 4 * i, 8 + 4 * i)

\* C14: if array B is array A reordered by a permutation f (same count, same
\* brightness), the stream of write(B) is the stream of write(A) with its
\* LED words reordered by f: word i of B's stream is word f(i) of A's; the
\* start frame, the end frame and the length are the same; and in each
\* stream word i is the word of element i of the array written.
C14_Permutation ==
    \A t \in Threads :
        (/\ Len(prog[t]) = 2 /\ Returned(t, 2)
         /\ prog[t][1].op = "write" /\ prog[t][2].op = "write"
         /\ prog[t][1].count = prog[t][2].count
         /\ prog[t][1].brightness = prog[t][2].brightness) =>
            LET n == prog[t][1].count
                A == prog[t][1].colors
                B == prog[t][2].colors
                b == ArgOr(prog[t][1].brightness, DefaultBrightness)
                oA == out[t][1]
                oB == out[t][2]
            IN  /\ \A f \in Perms(n) :
                       B = Permute(A, f) =>
                           \A i \in 1..n : C14_Word(oB, i - 1) = C14_Word(oA, f[i] - 1)
                /\ (\E f \in Perms(n) : B = Permute(A, f)) =>
                       /\ RleLen(oB) = RleLen(oA)
                       /\ C14_Segment(oB, 0, 4) = C14_Segment(oA, 0, 4)
                       /\ C14_Segment(oB, 4 + 4 * n, RleLen(oB)) =
                              C14_Segment(oA, 4 + 4 * n, RleLen(oA))
                /\ \A i \in 1..n :
                       /\ C14_Word(oA, i - 1) = <<224 + b, A[i].blue, A[i].green, A[i].red>>
                       /\ C14_Word(oB, i - 1) = <<224 + b, B[i].blue, B[i].green, B[i].red>>

\* A write of three different colors and a write of the three rotated by
\* one place have returned; the two streams differ.
C14_Witness ==
    \E t \in Threads :
        /\ Len(prog[t]) = 2 /\ Returned(t, 2)
        /\ prog[t][1].op = "write" /\ prog[t][2].op = "write"
        /\ prog[t][1].count >= 3
        /\ Cardinality({prog[t][1].colors[i] : i \in 1..3}) = 3
        /\ \E f \in Perms(prog[t][1].count) :
              /\ f[1] = 2 /\ f[2] = 3 /\ f[3] = 1
              /\ prog[t][2].colors = Permute(prog[t][1].colors, f)
        /\ out[t][1] # out[t][2]
        /\ C14_Word(out[t][2], 0) = C14_Word(out[t][1], 1)
        /\ C14_Word(out[t][2], 2) = C14_Word(out[t][1], 0)

\* The low-level calls of thread t that have returned.
C15_LowLevelCalls ==
    ReturnedCalls("startFrame") \cup ReturnedCalls("sendColor")
    \cup ReturnedCalls("sendColor_rgb") \cup ReturnedCalls("endFrame")

\* The bytes a low-level call emits, and the number of runs of init or
\* transfer it makes, as functions of its own arguments.
C15_Bytes(c) ==
    LET h == 224 + (ArgOr(c.brightness, DefaultBrightness) % 32)
    IN  CASE c.op = "startFrame" -> <<[v |-> 0, n |-> 4]>>
          [] c.op = "sendColor" -> RleOf(<<h, c.blue, c.green, c.red>>)
          [] c.op = "sendColor_rgb" -> RleOf(<<h, c.color.blue, c.color.green, c.color.red>>)
          [] c.op = "endFrame" -> <<[v |-> 255, n |-> 1], [v |-> 0, n |-> 5 + c.count \div 16]>>

C15_Runs(c) ==
    CASE c.op = "startFrame" -> 1 + 4
      [] c.op \in {"sendColor", "sendColor_rgb"} -> 4
      [] c.op = "endFrame" -> 1 + 5 + c.count \div 16

\* C15: the library keeps no bookkeeping.  In every sequence of startFrame,
\* sendColor and endFrame calls, in any order and with any arguments, each
\* call runs all its transfers (none is refused or cut short), the bytes it
\* emits are a function of its own arguments alone, and two calls with
\* the same arguments issue the same GPIO operations whatever came before.
C15_NoBookkeeping ==
    /\ \A x \in C15_LowLevelCalls :
        /\ out[x[1]][x[2]] = C15_Bytes(prog[x[1]][x[2]])
        /\ RleLen(gpio[x[1]][x[2]]) = C15_Runs(prog[x[1]][x[2]])
    /\ \A x, y \in C15_LowLevelCalls :
        prog[x[1]][x[2]] = prog[y[1]][y[2]] =>
            /\ gpio[x[1]][x[2]] = gpio[y[1]][y[2]]
            /\ out[x[1]][x[2]] = out[y[1]][y[2]]

\* A sendColor that no startFrame preceded has returned with its four bytes,
\* and the startFrame or endFrame called after it has returned as well.
C15_Witness ==
    \E t \in Threads :
        /\ Len(prog[t]) = 2 /\ Returned(t, 2)
        /\ prog[t][1].op = "sendColor"
        /\ prog[t][2].op \in {"startFrame", "endFrame"}
        /\ out[t][1] = C15_Bytes(prog[t][1])
        /\ RleLen(out[t][2]) >= 4

\* Every call of every program has returned.
C16_Done == \A t \in Threads : ci[t] > Len(prog[t]) /\ stk[t] = <<>>

\* The loop counters count the iterations done and stay within their loop
\* bounds, which fit a uint16_t; a call that has returned has made the
\* number of transfers that its count gives.
C16_Bounded ==
    /\ \A t \in Threads : \A d \in 1..Len(stk[t]) :
        LET f == stk[t][d]
        IN  /\ (f.fn = "write" /\ f.pc \in {2, 3}) =>
                   /\ f.i <= f.count /\ f.count <= UINT16_MAX
                   /\ f.pc = 3 => f.i < f.count
                   /\ RleLen(out[t][ci[t]]) \in 4 + 4 * f.i..4 + 4 * f.i + 4
            /\ (f.fn = "endFrame" /\ f.pc \in {2, 3}) =>
                   /\ f.i <= 5 + f.count \div 16 /\ 5 + f.count \div 16 <= UINT16_MAX
                   /\ f.pc = 3 => f.i < 5 + f.count \div 16
                   /\ d = 1 => RleLen(out[t][ci[t]]) \in 1 + f.i..1 + f.i + 1
    /\ \A x \in ReturnedCalls("write") :
        RleLen(gpio[x[1]][x[2]]) = 1 + 4 + 4 * prog[x[1]][x[2]].count
                                     + 6 + prog[x[1]][x[2]].count \div 16
    /\ \A x \in ReturnedCalls("endFrame") :
        RleLen(gpio[x[1]][x[2]]) = 6 + prog[x[1]][x[2]].count \div 16

RECURSIVE C17_Words(_, _, _)
C17_Words(colors, n, h) ==
    IF n = 0 THEN <<>>
    ELSE C17_Words(colors, n - 1, h) \o <<h, colors[n].blue, colors[n].green, colors[n].red>>

C17_Frame(c) ==
    RleOf(<<0, 0, 0, 0>>
          \o C17_Words(c.colors, c.count, 224 + (ArgOr(c.brightness, DefaultBrightness) % 32))
          \o <<255>> \o [j \in 1..5 + c.count \div 16 |-> 0])

\* What the strip has sampled is complete frames of the two calls, one after
\* the other.
C17_WellFormed(s) ==
    /\ wire[s].n = 0
    /\ \/ wire[s].bytes = RleCat(C17_Frame(prog[1][1]), C17_Frame(prog[2][1]))
       \/ wire[s].bytes = RleCat(C17_Frame(prog[2][1]), C17_Frame(prog[1][1]))

\* C17: the library takes no lock: a second caller of write can always enter
\* while the first is inside its call; when the callers serialize the two
\* calls themselves, the strip samples two complete frames one after the
\* other and each call clocks out its own frame.
C17_Serialized ==
    /\ \A t \in Threads :
        (Len(prog[t]) = 1 /\ ~prog[t][1].locked /\ ci[t] = 1 /\ stk[t] = <<>>) =>
            ENABLED invoke(t)
    /\ (\A t \in Threads : Len(prog[t]) = 1 /\ prog[t][1].locked) =>
        /\ \E t \in Threads : stk[t] = <<>>
        /\ \A t \in Threads : Returned(t, 1) => out[t][1] = C17_Frame(prog[t][1])
        /\ C16_Done => C17_WellFormed(prog[1][1].strip)

\* Two writes that were not serialized have both returned: the first was
\* preempted inside its frame, the bytes clocked by its own pulses are not
\* its frame, and what the strip sampled is not two frames.
C17_Witness ==
    /\ \A t \in Threads : Len(prog[t]) = 1 /\ ~prog[t][1].locked /\ Returned(t, 1)
    /\ out[1][1] # C17_Frame(prog[1][1])
    /\ out[2][1] = C17_Frame(prog[2][1])
    /\ ~C17_WellFormed(prog[1][1].strip)

\* C18: after every transfer(b), for every byte b, the clock line is low and
\* the data line holds the last bit sent, bit 0 of b; so it is when the
\* operation that made the transfer returns.
C18_AfterTransfer ==
    /\ \A t \in Threads :
        At(t, "transfer", TransferEnd) =>
            /\ port[clockPin(t)] = LOW
            /\ port[dataPin(t)] = Top(t).b % 2
    /\ \A t \in Threads : \A k \in 1..Len(prog[t]) :
        JustReturned(t, k) =>
            /\ port[ClockPinOf(t, k)] = LOW
            /\ prog[t][k].op = "sendColor" => port[DataPinOf(t, k)] = prog[t][k].red % 2
            /\ prog[t][k].op = "sendColor_rgb" =>
                   port[DataPinOf(t, k)] = prog[t][k].color.red % 2
            /\ prog[t][k].op \in {"startFrame", "endFrame", "write"} =>
                   port[DataPinOf(t, k)] = LOW

\* transfer(1) has sent its last bit: the data line is high, the clock low.
C18_Witness ==
    \E t \in Threads :
        /\ At(t, "transfer", TransferEnd)
        /\ Top(t).b = 1
        /\ port[dataPin(t)] = HIGH
        /\ port[clockPin(t)] = LOW

\* The public operations, and the points where one is entered or returns.
C19_Public == {"write", "startFrame", "endFrame", "sendColor", "sendColor_rgb"}

C19_Boundary(t) ==
    \/ stk[t] = <<>>
    \/ /\ Top(t).fn \in C19_Public
       /\ Top(t).pc \in {0, EndPc(Top(t).fn)}

\* The strips on which thread t has run startFrame (hence init) to its end.
C19_Started(t) ==
    {s \in AllStrips :
        \/ \E k \in 1..Len(prog[t]) :
              Returned(t, k) /\ prog[t][k].strip = s /\ inits[t][k] > 0
        \/ \E d \in 1..Len(stk[t]) :
              /\ stk[t][d].strip = s
              /\ \/ stk[t][d].fn = "startFrame" /\ stk[t][d].pc = EndPc("startFrame")
                 \/ /\ stk[t][d].fn = "write"
                    /\ stk[t][d].pc >= IF d = Len(stk[t]) THEN 1 ELSE 2}

\* C19: once startFrame has been called, then after any sequence of
\* startFrame, sendColor, endFrame and write calls, wherever a public
\* operation is entered or returns, both pins are outputs and the clock line
\* is low.
C19_IdleLines ==
    \A t \in Threads :
        C19_Boundary(t) =>
            \A s \in C19_Started(t) :
                /\ mode[StripPins[s].dataPin] = "OUTPUT"
                /\ mode[StripPins[s].clockPin] = "OUTPUT"
                /\ port[StripPins[s].clockPin] = LOW

\* After a startFrame, a sendColor called next is about to return: the data
\* line is high (red is odd), both pins are outputs, the clock is low.
C19_Witness ==
    \E t \in Threads :
        /\ Len(prog[t]) = 2 /\ ci[t] = 2
        /\ prog[t][1].op = "startFrame"
        /\ At(t, "sendColor", EndPc("sendColor"))
        /\ C19_Started(t) = {1}
        /\ mode[dataPin(t)] = "OUTPUT" /\ mode[clockPin(t)] = "OUTPUT"
        /\ port[clockPin(t)] = LOW /\ port[dataPin(t)] = HIGH

\* The GPIO operations of init on strip s, in the order of the source.
C20_InitOps(s) ==
    <<<<"digitalWrite", StripPins[s].dataPin, LOW>>,
      <<"pinMode", StripPins[s].dataPin, "OUTPUT">>,
      <<"digitalWrite", StripPins[s].clockPin, LOW>>,
      <<"pinMode", StripPins[s].clockPin, "OUTPUT">>>>

\* While init runs, the operations it has issued are the first of that
\* sequence, and a pin it has written low is low.
C20_Order ==
    \A t \in Threads :
        (stk[t] # <<>> /\ Top(t).fn = "init") =>
            /\ cur[t] = SubSeq(C20_InitOps(Top(t).strip), 1, Top(t).pc)
            /\ Top(t).pc >= 1 => port[dataPin(t)] = LOW
            /\ Top(t).pc >= 3 => port[clockPin(t)] = LOW

\* A step of init: a pin that changes direction has its level low, and no
\* pin is driven high after the step that was not driven high before it.
C20_Step ==
    \A t \in Threads :
        (stk[t] # <<>> /\ Top(t).fn = "init") =>
            \A p \in Pins :
                /\ mode'[p] # mode[p] =>
                       /\ mode'[p] = "OUTPUT" /\ port[p] = LOW /\ port'[p] = LOW
                /\ (mode'[p] = "OUTPUT" /\ port'[p] = HIGH) =>
                       (mode[p] = "OUTPUT" /\ port[p] = HIGH)

\* C20: init (digitalWrite path) writes the level of each pin low before it
\* makes the pin an output, the data pin before the clock pin; so a pin is
\* low at the moment it becomes an output and init never drives a line high.
C20_InitOrder == []C20_Order /\ [][C20_Step]_vars

\* init has written the data pin low while it is still an input with the
\* clock register still high (pins left with pull-ups on before the call).
C20_Witness ==
    \E t \in Threads :
        /\ At(t, "init", 1)
        /\ mode[dataPin(t)] = "INPUT" /\ port[dataPin(t)] = LOW
        /\ mode[clockPin(t)] = "INPUT" /\ port[clockPin(t)] = HIGH

====
